---------------------------- MODULE Spec2Model ----------------------------
(***************************************************************************)
(* Model of the gap-detection engine of the datatools repository:          *)
(*   src/production_checker/production_checker.py  (ProductionChecker)     *)
(*   src/cogcc_checker/cogcc_checker.py            (main and its helpers)  *)
(*                                                                         *)
(* A DataFrame is a sequence of rows; a row is a record keyed by column.   *)
(* A date is a tuple <<year, month, day>>.  Python's None is the empty     *)
(* tuple, pandas' missing number is NaN, a missing string is "NaN".        *)
(*                                                                         *)
(* pandas plumbing is modelled by what the call is written to do on each   *)
(* row (first_day_of_month over the date column, DataFrame.apply over the  *)
(* rows, groupby/agg per column, datetime + timedelta + whole days); the   *)
(* arithmetic, the comparisons and the control flow of the source are      *)
(* modelled exactly as written.                                            *)
(***************************************************************************)
EXTENDS Integers, Sequences, FiniteSets, TLC

VARIABLES
    df,         \* the caller's input records (ProductionChecker.df is a copy)
    cfg,        \* the constructor's configuration
    prod_df,    \* ProductionChecker.prod_df (prod_gb of cogcc_checker.main), the monthly
                \* Timeline; <<>> before it is built
    built,      \* whether __init__ (or main) has run
    call,       \* the most recent detection call: its name and arguments; <<>> if none
    gaps_df,    \* the report returned by the most recent detection call (after main:
                \* its three reports, by name)
    repeat,     \* whether that call repeated the arguments of the call before it
    output      \* the lines returned by the most recent output_gaps_as_string; <<>> if none

vars == <<df, cfg, prod_df, built, call, gaps_df, repeat, output>>

-----------------------------------------------------------------------------
(* Bounds of the model *)

\* Number of calendar months the input records may span.
MaxMonths == 3

\* Number of input records in the free-form inputs of the Timeline builder.
MaxRecords == 3

-----------------------------------------------------------------------------
(* Values *)

None == <<>>

NaN == -1000000

IsNaN(x) == x = NaN

\* float addition: NaN is absorbing
NanAdd(x, y) == IF IsNaN(x) \/ IsNaN(y) THEN NaN ELSE x + y

\* float comparisons: every comparison with NaN is False
NanEq(x, y) == ~IsNaN(x) /\ ~IsNaN(y) /\ x = y

NanGt(x, y) == ~IsNaN(x) /\ ~IsNaN(y) /\ x > y

NanLt(x, y) == ~IsNaN(x) /\ ~IsNaN(y) /\ x < y

-----------------------------------------------------------------------------
(* Calendar utilities *)

IsLeap(y) == (y % 4 = 0 /\ y % 100 # 0) \/ y % 400 = 0

\* calendar.monthrange(year, month)[1]
monthrange(y, m) ==
    IF m = 2 THEN (IF IsLeap(y) THEN 29 ELSE 28)
    ELSE IF m \in {4, 6, 9, 11} THEN 30 ELSE 31

get_days_in_month(dt) == monthrange(dt[1], dt[2])

first_day_of_month(dt) == <<dt[1], dt[2], 1>>

last_day_of_month(dt) == <<dt[1], dt[2], get_days_in_month(dt)>>

\* months since year 0, the quantity year*12 + month
MonthIndex(dt) == dt[1] * 12 + dt[2]

MonthOfIndex(k) == <<(k - 1) \div 12, ((k - 1) % 12) + 1, 1>>

RECURSIVE DaysBeforeMonth(_, _)
\* days of year y before month m
DaysBeforeMonth(y, m) ==
    IF m = 1 THEN 0 ELSE DaysBeforeMonth(y, m - 1) + monthrange(y, m - 1)

RECURSIVE DaysBeforeYear(_)
\* days from 1 January 2000 to 1 January of year y (y >= 2000)
DaysBeforeYear(y) ==
    IF y <= 2000 THEN 0
    ELSE DaysBeforeYear(y - 1) + (IF IsLeap(y - 1) THEN 366 ELSE 365)

\* datetime.toordinal, shifted to count from 1 January 2000
ToOrdinal(dt) == DaysBeforeYear(dt[1]) + DaysBeforeMonth(dt[1], dt[2]) + dt[3]

\* (a - b).days
DaysBetween(a, b) == ToOrdinal(a) - ToOrdinal(b)

RECURSIVE NormalizeDate(_, _, _)
\* the date <<y, m, 1>> plus (d - 1) days, d any integer
NormalizeDate(y, m, d) ==
    IF d < 1 THEN
        (IF m = 1 THEN NormalizeDate(y - 1, 12, d + 31)
         ELSE NormalizeDate(y, m - 1, d + monthrange(y, m - 1)))
    ELSE IF d > monthrange(y, m) THEN
        (IF m = 12 THEN NormalizeDate(y + 1, 1, d - 31)
         ELSE NormalizeDate(y, m + 1, d - monthrange(y, m)))
    ELSE <<y, m, d>>

\* dt + timedelta(days=n)
AddDays(dt, n) == NormalizeDate(dt[1], dt[2], dt[3] + n)

DateLt(a, b) == ToOrdinal(a) < ToOrdinal(b)

DateLeq(a, b) == ToOrdinal(a) <= ToOrdinal(b)

-----------------------------------------------------------------------------
(* Configuration of a ProductionChecker *)

\* cogcc_checker.main: the thresholds of the text summary
MIN_DAYS_PRODUCTION_CESSATION == 0

MIN_DAYS_SHUTIN_PERIOD == 0

\* Python's None where a column header is expected
NoCol == "None"

\* Headers of the aggregation columns (class attributes)
ANY_ACTIVE == "any_active"

ANY_SHUTIN == "any_shutin"

DAYS_PRODUCING == "max_days_producing"

DAYS_NOT_PRODUCING == "min_days_not_producing"

\* Every column configured, default thresholds: the COGCC column headers.
FullConfig ==
    [date_col |-> "FirstOfMonth", oil_prod_col |-> "OilProduced",
     gas_prod_col |-> "GasProduced", days_produced_col |-> "DaysProduced",
     status_col |-> "WellStatus", shutin_codes |-> <<{"SI"}>>,
     oil_prod_min |-> 0, gas_prod_min |-> 0]

\* As FullConfig, with a minimum of 6 BBLs of oil for a record to count as producing.
OilMinConfig == [FullConfig EXCEPT !.oil_prod_min = 6, !.gas_prod_min = 3]

\* Only the date column configured: ProductionChecker(df, date_col="FirstOfMonth").
DateOnlyConfig ==
    [date_col |-> "FirstOfMonth", oil_prod_col |-> NoCol, gas_prod_col |-> NoCol,
     days_produced_col |-> NoCol, status_col |-> NoCol, shutin_codes |-> None,
     oil_prod_min |-> 0, gas_prod_min |-> 0]

\* The date and the days-produced columns configured, nothing else.
DaysOnlyConfig == [DateOnlyConfig EXCEPT !.days_produced_col = "DaysProduced"]

is_configured_shutin(c) == c.shutin_codes # None /\ c.status_col # NoCol

is_configured_production(c) == c.oil_prod_col # NoCol \/ c.gas_prod_col # NoCol

-----------------------------------------------------------------------------
(* Monthly Timeline builder *)

RECURSIVE SortDates(_)
\* the dates of S in ascending order: the group keys of groupby (sort=True)
SortDates(S) ==
    IF S = {} THEN <<>>
    ELSE LET a == CHOOSE x \in S : \A y \in S : DateLeq(x, y)
         IN <<a>> \o SortDates(S \ {a})

RECURSIVE SumOver(_, _)
\* sum of f[i] over i in S, skipping NaN (0 when nothing is left)
SumOver(f, S) ==
    IF S = {} THEN 0
    ELSE LET i == CHOOSE x \in S : TRUE
         IN (IF IsNaN(f[i]) THEN 0 ELSE f[i]) + SumOver(f, S \ {i})

\* Series.sum() of the values vals (skipna)
AggSum(vals) == SumOver(vals, DOMAIN vals)

\* Mutant of AggMax: the value of the group's first row ('first' for 'max').
AggMaxFirst(vals) == IF DOMAIN vals = {} THEN NaN ELSE vals[1]

\* Series.max() (skipna): NaN when every value is missing
AggMax(vals) ==
    LET present == {vals[i] : i \in DOMAIN vals} \ {NaN}
    IN IF present = {} THEN NaN ELSE CHOOSE x \in present : \A y \in present : y <= x

\* Series.min() (skipna): NaN when every value is missing
AggMin(vals) ==
    LET present == {vals[i] : i \in DOMAIN vals} \ {NaN}
    IN IF present = {} THEN NaN ELSE CHOOSE x \in present : \A y \in present : x <= y

\* max of a boolean column
AggAny(vals) == \E i \in DOMAIN vals : vals[i]

\* sum of a boolean column
AggCount(vals) == Cardinality({i \in DOMAIN vals : vals[i]})

\* A row of every_month: only the date column is set.
FillerRow(dt) ==
    [api_num |-> "NaN", FirstOfMonth |-> dt, OilProduced |-> NaN,
     GasProduced |-> NaN, DaysProduced |-> NaN, WellStatus |-> "NaN"]

\* pd.date_range(start, end, freq='MS') for first-of-month start and end
date_range(first_month, last_month) ==
    [k \in 1..(MonthIndex(last_month) - MonthIndex(first_month) + 1) |->
        MonthOfIndex(MonthIndex(first_month) + k - 1)]

\* Mutant of df_after_init: no deep copies, so the assignment of the normalised
\* dates in standardize_dates lands in the frame of the caller.
df_after_init_shared(c, d) ==
    [i \in DOMAIN d |-> [d[i] EXCEPT ![c.date_col] = first_day_of_month(@)]]

\* The frame the caller passed to __init__, after __init__: the checker keeps a
\* deep copy of it and standardize_dates assigns into a further deep copy.
df_after_init(c, d) == d

\* Mutant of standardize_dates: the dates are left on the day they were filed.
standardize_dates_unnormalized(c, d) ==
    LET dates == {first_day_of_month(d[i].FirstOfMonth) : i \in DOMAIN d}
        first_month == CHOOSE a \in dates : \A b \in dates : DateLeq(a, b)
        last_month == CHOOSE a \in dates : \A b \in dates : DateLeq(b, a)
        months == date_range(first_month, last_month)
        every_month == [k \in DOMAIN months |-> FillerRow(months[k])]
    IN d \o every_month

standardize_dates(c, d) ==
    LET std == [i \in DOMAIN d |->
                   [d[i] EXCEPT !.FirstOfMonth = first_day_of_month(@)]]
        dates == {std[i].FirstOfMonth : i \in DOMAIN std}
        first_month == CHOOSE a \in dates : \A b \in dates : DateLeq(a, b)
        last_month == CHOOSE a \in dates : \A b \in dates : DateLeq(b, a)
        months == date_range(first_month, last_month)
        every_month == [k \in DOMAIN months |-> FillerRow(months[k])]
    IN std \o every_month

\* Mutant of check_min_prod: a production column that is not configured counts as
\* production.
check_min_prod_unconfigured_counts(row_, prod_col, prod_min) ==
    IF prod_col = NoCol THEN 1
    ELSE IF NanLt(row_[prod_col], prod_min) THEN 0
    ELSE row_[prod_col]

check_min_prod(row_, prod_col, prod_min) ==
    IF prod_col = NoCol THEN 0
    ELSE IF NanLt(row_[prod_col], prod_min) THEN 0
    ELSE row_[prod_col]

row_is_producing(c, row) ==
    LET oil_prod == check_min_prod(row, c.oil_prod_col, c.oil_prod_min)
        gas_prod == check_min_prod(row, c.gas_prod_col, c.gas_prod_min)
    IN NanGt(NanAdd(oil_prod, gas_prod), 0)

row_is_shutin(c, row) ==
    IF c.status_col = NoCol THEN FALSE
    ELSE LET codes == IF c.shutin_codes = None THEN {} ELSE c.shutin_codes[1]
         IN row[c.status_col] \in codes

\* A missing days-produced value is NaN here, which "is None" does not catch.
row_num_unproducing_days(c, row) ==
    LET days_in_month == get_days_in_month(row[c.date_col])
        days_produced == row[c.days_produced_col]
    IN IF IsNaN(days_produced) THEN NaN
       ELSE days_produced - days_in_month

\* The Timeline row of one month from the rows grp of that month.
AggregateMonth(c, dt, grp) ==
    LET col(name) == [i \in DOMAIN grp |-> grp[i][name]]
        active == [i \in DOMAIN grp |-> row_is_producing(c, grp[i])]
        shutin == [i \in DOMAIN grp |-> row_is_shutin(c, grp[i])]
        unprod == [i \in DOMAIN grp |-> row_num_unproducing_days(c, grp[i])]
        base == [FirstOfMonth |-> dt,
                 num_active |-> AggCount(active), num_shutin |-> AggCount(shutin),
                 any_active |-> AggAny(active), any_shutin |-> AggAny(shutin)]
        oil == IF c.oil_prod_col = NoCol THEN <<>>
               ELSE [x \in {c.oil_prod_col} |-> AggSum(col(c.oil_prod_col))]
        gas == IF c.gas_prod_col = NoCol THEN <<>>
               ELSE [x \in {c.gas_prod_col} |-> AggSum(col(c.gas_prod_col))]
        days == IF c.days_produced_col = NoCol THEN <<>>
                ELSE [max_days_producing |-> AggMax(col(c.days_produced_col)),
                      min_days_not_producing |-> AggMin(unprod)]
    IN base @@ oil @@ gas @@ days

group_by_month(c, d) ==
    LET prod == standardize_dates(c, d)
        keys == SortDates({prod[i][c.date_col] : i \in DOMAIN prod})
        rowsOf(dt) == SelectSeq(prod, LAMBDA r : r[c.date_col] = dt)
    IN [j \in DOMAIN keys |-> AggregateMonth(c, keys[j], rowsOf(keys[j]))]

-----------------------------------------------------------------------------
(* Gap summarizer *)

\* Mutant of GapRow: the day count leaves out the end date.
GapRowExclusive(gap) ==
    [start_date |-> gap[1], end_date |-> gap[2],
     total_months |-> (gap[2][1] - gap[1][1]) * 12 + (gap[2][2] - gap[1][2]) + 1,
     total_days |-> DaysBetween(gap[2], gap[1])]

\* One row of the report from one (start, end) pair.
GapRow(gap) ==
    [start_date |-> gap[1], end_date |-> gap[2],
     total_months |-> (gap[2][1] - gap[1][1]) * 12 + (gap[2][2] - gap[1][2]) + 1,
     total_days |-> DaysBetween(gap[2], gap[1]) + 1]

_gaps_to_dataframe(gaps) == [i \in DOMAIN gaps |-> GapRow(gaps[i])]

\* One line of the text report; the text pieces and the values in the order printed.
GapLine(row) ==
    <<" -- ", row.total_days, " days (", row.total_months, " months)", "::  ",
      row.start_date, " -- ", row.end_date>>

NoneLine == <<" -- None that meet the threshold.">>

RECURSIVE GapLinesStrict(_, _)
\* Mutant of GapLines: a gap of exactly threshold_days is left out.
GapLinesStrict(report, threshold_days) ==
    IF report = <<>> THEN <<>>
    ELSE (IF Head(report).total_days > threshold_days
          THEN <<GapLine(Head(report))>> ELSE <<>>)
         \o GapLinesStrict(Tail(report), threshold_days)

RECURSIVE GapLines(_, _)
\* the loop over gaps_df.iterrows()
GapLines(report, threshold_days) ==
    IF report = <<>> THEN <<>>
    ELSE (IF Head(report).total_days >= threshold_days
          THEN <<GapLine(Head(report))>> ELSE <<>>)
         \o GapLines(Tail(report), threshold_days)

\* The lines of the returned string (joined by '\n' in the source).
output_gaps_as_string(report, header, threshold_days) ==
    LET found == GapLines(report, threshold_days)
        lines == IF Len(found) = 0 THEN <<NoneLine>> ELSE found
    IN <<<<header>>, <<"[[at least ", threshold_days, " days in length]]">>>> \o lines

RECURSIVE cogcc_GapLines(_, _)
\* the loop over df.iterrows() of cogcc_checker.output_gaps_as_string
cogcc_GapLines(report, threshold_days) ==
    IF report = <<>> THEN <<>>
    ELSE (IF Head(report).total_days >= threshold_days
          THEN <<GapLine(Head(report))>> ELSE <<>>)
         \o cogcc_GapLines(Tail(report), threshold_days)

\* cogcc_checker.output_gaps_as_string: the lines of the returned string
cogcc_output_gaps_as_string(report, header, threshold_days) ==
    LET found == cogcc_GapLines(report, threshold_days)
        lines == IF Len(found) = 0 THEN <<NoneLine>> ELSE found
    IN <<<<header>>, <<"[[at least ", threshold_days, " days in length]]">>>> \o lines

-----------------------------------------------------------------------------
(* Gap detector *)

\* The local variables of a detection loop before the first row.
LoopInit ==
    [running_days_vals |-> <<>>, running_months_vals |-> <<>>,
     days_counter |-> 0, months_counter |-> 0,
     gap_start_date |-> None, previous_last_day |-> None, gaps |-> <<>>]

\* df[name] = vals: set (or add) column name of every row
SetColumn(d, name, vals) ==
    IF name = NoCol THEN d
    ELSE [i \in DOMAIN d |->
            [x \in {name} |-> vals[i]] @@ [k \in DOMAIN d[i] \ {name} |-> d[i][k]]]

\* Mutant of AddColumns: the running months are stored under the header of the
\* days-producing aggregate.
AddColumnsWrongHeader(d, st, new_days_col, new_months_col) ==
    SetColumn(SetColumn(d, new_days_col, st.running_days_vals),
              IF new_months_col = NoCol THEN NoCol ELSE DAYS_PRODUCING,
              st.running_months_vals)

\* Mutant of AddColumns: when columns are asked for, the frame is rebuilt from
\* the dates and the new columns alone.
AddColumnsRebuilt(d, st, new_days_col, new_months_col) ==
    IF new_days_col = NoCol /\ new_months_col = NoCol THEN d
    ELSE SetColumn(SetColumn([i \in DOMAIN d |-> [FirstOfMonth |-> d[i].FirstOfMonth]],
                             new_days_col, st.running_days_vals),
                   new_months_col, st.running_months_vals)

\* The rows after the one assignment (or none) per requested column.
AddColumns(d, st, new_days_col, new_months_col) ==
    SetColumn(SetColumn(d, new_days_col, st.running_days_vals),
              new_months_col, st.running_months_vals)

\* Mutant of CloseOpenGap: a gap still open after the last row is dropped.
CloseOpenGapDropped(st) == st.gaps

\* The step after the loop: a gap still open is closed at the last row's last day.
CloseOpenGap(st) ==
    IF st.gap_start_date # None
    THEN Append(st.gaps, <<st.gap_start_date, st.previous_last_day>>)
    ELSE st.gaps

\* Mutant of ThresholdProducing: a shut-in month counts as producing whatever
\* shutin_as_producing says.
ThresholdProducingShutinAlways(c, row, shutin_as_producing) ==
    row[ANY_ACTIVE] \/ (is_configured_shutin(c) /\ row[ANY_SHUTIN])

\* gaps_by_production_threshold: whether the row is outside every gap
ThresholdProducing(c, row, shutin_as_producing) ==
    LET is_producing == row[ANY_ACTIVE]
        is_shutin == IF is_configured_shutin(c)
                     THEN shutin_as_producing /\ row[ANY_SHUTIN]
                     ELSE FALSE
    IN is_producing \/ is_shutin

\* Mutant of ThresholdStep: a gap is closed at the last day of the producing row
\* that ends it, not of the row before.
ThresholdStepEndsAtCurrent(c, st, row, shutin_as_producing) ==
    LET first_day == row[c.date_col]
        days_in_month == get_days_in_month(first_day)
        last_day == last_day_of_month(first_day)
        s1 == IF ~(row[ANY_ACTIVE]
                   \/ (is_configured_shutin(c) /\ shutin_as_producing
                       /\ row[ANY_SHUTIN]))
              THEN [st EXCEPT !.days_counter = @ + days_in_month,
                              !.months_counter = @ + 1,
                              !.gap_start_date =
                                  IF @ = None THEN first_day ELSE @]
              ELSE [st EXCEPT !.gaps =
                                  IF st.gap_start_date # None
                                  THEN Append(@, <<st.gap_start_date, last_day>>)
                                  ELSE @,
                              !.days_counter = 0,
                              !.months_counter = 0,
                              !.gap_start_date = None]
    IN [s1 EXCEPT !.running_days_vals = Append(@, s1.days_counter),
                  !.running_months_vals = Append(@, s1.months_counter),
                  !.previous_last_day = last_day]

\* Mutant of ThresholdStep: a producing row closes the gap but leaves the running
\* day counter as it was.
ThresholdStepKeepsDays(c, st, row, shutin_as_producing) ==
    LET first_day == row[c.date_col]
        days_in_month == get_days_in_month(first_day)
        last_day == last_day_of_month(first_day)
        s1 == IF ~ThresholdProducing(c, row, shutin_as_producing)
              THEN [st EXCEPT !.days_counter = @ + days_in_month,
                              !.months_counter = @ + 1,
                              !.gap_start_date =
                                  IF @ = None THEN first_day ELSE @]
              ELSE [st EXCEPT !.gaps =
                                  IF st.gap_start_date # None
                                  THEN Append(@, <<st.gap_start_date,
                                                   st.previous_last_day>>)
                                  ELSE @,
                              !.months_counter = 0,
                              !.gap_start_date = None]
    IN [s1 EXCEPT !.running_days_vals = Append(@, s1.days_counter),
                  !.running_months_vals = Append(@, s1.months_counter),
                  !.previous_last_day = last_day]

\* One iteration of the loop of gaps_by_production_threshold.
ThresholdStep(c, st, row, shutin_as_producing) ==
    LET first_day == row[c.date_col]
        days_in_month == get_days_in_month(first_day)
        last_day == last_day_of_month(first_day)
        s1 == IF ~ThresholdProducing(c, row, shutin_as_producing)
              THEN [st EXCEPT !.days_counter = @ + days_in_month,
                              !.months_counter = @ + 1,
                              !.gap_start_date =
                                  IF @ = None THEN first_day ELSE @]
              ELSE [st EXCEPT !.gaps =
                                  IF st.gap_start_date # None
                                  THEN Append(@, <<st.gap_start_date,
                                                   st.previous_last_day>>)
                                  ELSE @,
                              !.days_counter = 0,
                              !.months_counter = 0,
                              !.gap_start_date = None]
    IN [s1 EXCEPT !.running_days_vals = Append(@, s1.days_counter),
                  !.running_months_vals = Append(@, s1.months_counter),
                  !.previous_last_day = last_day]

RECURSIVE ThresholdLoop(_, _, _, _)
\* The loop state after the first k rows of d.
ThresholdLoop(c, d, k, shutin_as_producing) ==
    IF k = 0 THEN LoopInit
    ELSE ThresholdStep(c, ThresholdLoop(c, d, k - 1, shutin_as_producing),
                       d[k], shutin_as_producing)

\* Mutant of EffectiveDays: for a shut-in month only days_not_producing is
\* overridden, the reported days_producing is kept.
EffectiveDaysShutinKeepsDays(c, row, shutin_as_producing, consider_production) ==
    LET days_in_month == get_days_in_month(row[c.date_col])
        is_shutin == IF is_configured_shutin(c)
                     THEN shutin_as_producing /\ row[ANY_SHUTIN]
                     ELSE FALSE
    IN IF is_shutin THEN <<row[DAYS_PRODUCING], 0>>
       ELSE IF consider_production /\ ~row[ANY_ACTIVE] THEN <<0, days_in_month>>
       ELSE <<row[DAYS_PRODUCING], row[DAYS_NOT_PRODUCING]>>

\* Mutant of EffectiveDays: the production override is applied whatever
\* consider_production says.
EffectiveDaysAlwaysConsiders(c, row, shutin_as_producing, consider_production) ==
    LET days_in_month == get_days_in_month(row[c.date_col])
        is_shutin == IF is_configured_shutin(c)
                     THEN shutin_as_producing /\ row[ANY_SHUTIN]
                     ELSE FALSE
    IN IF is_shutin THEN <<days_in_month, 0>>
       ELSE IF ~row[ANY_ACTIVE] THEN <<0, days_in_month>>
       ELSE <<row[DAYS_PRODUCING], row[DAYS_NOT_PRODUCING]>>

\* The effective (days_producing, days_not_producing) of a row in
\* gaps_by_producing_days, after the shut-in and production overrides.
EffectiveDays(c, row, shutin_as_producing, consider_production) ==
    LET days_in_month == get_days_in_month(row[c.date_col])
        is_shutin == IF is_configured_shutin(c)
                     THEN shutin_as_producing /\ row[ANY_SHUTIN]
                     ELSE FALSE
    IN IF is_shutin THEN <<days_in_month, 0>>
       ELSE IF consider_production /\ ~row[ANY_ACTIVE] THEN <<0, days_in_month>>
       ELSE <<row[DAYS_PRODUCING], row[DAYS_NOT_PRODUCING]>>

\* Mutant of DaysStep: a gap opened in a month of partial production starts
\* days_not_producing days after the last day of the month, not before it.
DaysStepOpensLate(c, st, row, shutin_as_producing, consider_production) ==
    LET first_day == row[c.date_col]
        last_day == last_day_of_month(first_day)
        eff == EffectiveDays(c, row, shutin_as_producing, consider_production)
        days_producing == eff[1]
        days_not_producing == eff[2]
        s0 == [st EXCEPT !.days_counter = NanAdd(@, days_not_producing)]
        s1 == IF NanEq(days_producing, 0)
              THEN \* No production all month.
                   [s0 EXCEPT !.months_counter = @ + 1,
                              !.gap_start_date =
                                  IF @ = None THEN first_day ELSE @]
              ELSE IF NanGt(days_not_producing, 0)
              THEN \* Partial production.
                   (IF s0.gap_start_date = None
                    THEN [s0 EXCEPT !.gap_start_date =
                                  AddDays(last_day, 1 + days_not_producing)]
                    ELSE [s0 EXCEPT !.gaps =
                                  Append(@, <<s0.gap_start_date,
                                              AddDays(first_day,
                                                      days_not_producing - 1)>>)])
              ELSE \* Full production all month.
                   [s0 EXCEPT !.gaps =
                                  IF s0.gap_start_date # None
                                  THEN Append(@, <<s0.gap_start_date,
                                                   s0.previous_last_day>>)
                                  ELSE @,
                              !.days_counter = 0,
                              !.months_counter = 0,
                              !.gap_start_date = None]
    IN [s1 EXCEPT !.running_days_vals = Append(@, s1.days_counter),
                  !.running_months_vals = Append(@, s1.months_counter),
                  !.previous_last_day = last_day]

\* One iteration of the loop of gaps_by_producing_days.
DaysStep(c, st, row, shutin_as_producing, consider_production) ==
    LET first_day == row[c.date_col]
        last_day == last_day_of_month(first_day)
        eff == EffectiveDays(c, row, shutin_as_producing, consider_production)
        days_producing == eff[1]
        days_not_producing == eff[2]
        s0 == [st EXCEPT !.days_counter = NanAdd(@, days_not_producing)]
        s1 == IF NanEq(days_producing, 0)
              THEN \* No production all month.
                   [s0 EXCEPT !.months_counter = @ + 1,
                              !.gap_start_date =
                                  IF @ = None THEN first_day ELSE @]
              ELSE IF NanGt(days_not_producing, 0)
              THEN \* Partial production.
                   (IF s0.gap_start_date = None
                    THEN [s0 EXCEPT !.gap_start_date =
                                  AddDays(last_day, 1 - days_not_producing)]
                    ELSE [s0 EXCEPT !.gaps =
                                  Append(@, <<s0.gap_start_date,
                                              AddDays(first_day,
                                                      days_not_producing - 1)>>)])
              ELSE \* Full production all month.
                   [s0 EXCEPT !.gaps =
                                  IF s0.gap_start_date # None
                                  THEN Append(@, <<s0.gap_start_date,
                                                   s0.previous_last_day>>)
                                  ELSE @,
                              !.days_counter = 0,
                              !.months_counter = 0,
                              !.gap_start_date = None]
    IN [s1 EXCEPT !.running_days_vals = Append(@, s1.days_counter),
                  !.running_months_vals = Append(@, s1.months_counter),
                  !.previous_last_day = last_day]

RECURSIVE DaysLoop(_, _, _, _, _)
\* The loop state after the first k rows of d.
DaysLoop(c, d, k, shutin_as_producing, consider_production) ==
    IF k = 0 THEN LoopInit
    ELSE DaysStep(c, DaysLoop(c, d, k - 1, shutin_as_producing, consider_production),
                  d[k], shutin_as_producing, consider_production)

\* consider_production=None means: whether production columns were configured
ResolveConsiderProduction(c, arg) ==
    IF arg = None THEN is_configured_production(c) ELSE arg[1]

-----------------------------------------------------------------------------
(* COGCC checker: the pipeline of cogcc_checker.main *)

\* Mutant of get_last_day: February has 28 days in every year.
get_last_day_no_leap(dt) ==
    LET last_day == IF dt[2] = 2 THEN 28 ELSE monthrange(dt[1], dt[2])
    IN <<dt[1], "-", <<dt[2] \div 10, dt[2] % 10>>, "-",
         <<last_day \div 10, last_day % 10>>>>

\* get_last_day: the last day of dt's month as the text 'YYYY-MM-DD'; the month and
\* the day are two digits each (rjust(2, '0')).
get_last_day(dt) ==
    LET last_day == monthrange(dt[1], dt[2])
    IN <<dt[1], "-", <<dt[2] \div 10, dt[2] % 10>>, "-",
         <<last_day \div 10, last_day % 10>>>>

\* pd.to_datetime of a 'YYYY-MM-DD' text
to_datetime(text) ==
    <<text[1], text[3][1] * 10 + text[3][2], text[5][1] * 10 + text[5][2]>>

\* main: prod with every_month appended (the dates are taken as they are filed)
cogcc_every_month(d) ==
    LET dates == {d[i].FirstOfMonth : i \in DOMAIN d}
        FIRST_MONTH == CHOOSE a \in dates : \A b \in dates : DateLeq(a, b)
        LAST_MONTH == CHOOSE a \in dates : \A b \in dates : DateLeq(b, a)
        months == date_range(FIRST_MONTH, LAST_MONTH)
    IN d \o [k \in DOMAIN months |-> FillerRow(months[k])]

\* main: prod.groupby("FirstOfMonth", as_index=False)[fields].agg(aggfuncs)
cogcc_groupby(d) ==
    LET prod == cogcc_every_month(d)
        keys == SortDates({prod[i].FirstOfMonth : i \in DOMAIN prod})
        rowsOf(dt) == SelectSeq(prod, LAMBDA r : r.FirstOfMonth = dt)
        agg(dt, grp) ==
            LET col(name) == [i \in DOMAIN grp |-> grp[i][name]]
                active == [i \in DOMAIN grp |-> grp[i].WellStatus = "PR"]
                shutin == [i \in DOMAIN grp |-> grp[i].WellStatus = "SI"]
            IN [FirstOfMonth |-> dt,
                DaysProduced |-> AggMax(col("DaysProduced")),
                OilProduced |-> AggSum(col("OilProduced")),
                GasProduced |-> AggSum(col("GasProduced")),
                any_well_active |-> AggAny(active),
                any_well_shutin |-> AggAny(shutin),
                num_wells_producing |-> AggCount(active),
                num_wells_shutin |-> AggCount(shutin)]
    IN [j \in DOMAIN keys |-> agg(keys[j], rowsOf(keys[j]))]

\* Mutant of logic_base: a shut-in month counts whatever was produced in it.
logic_base_status_only(name, row) ==
    CASE name = "production_raw" -> row.GasProduced + row.OilProduced = 0
      [] name = "production" ->
            row.GasProduced + row.OilProduced = 0 /\ ~row.any_well_shutin
      [] name = "shutin" -> row.any_well_shutin

\* main: the conditions of logic_base, by their keys
logic_base(name, row) ==
    CASE name = "production_raw" -> row.GasProduced + row.OilProduced = 0
      [] name = "production" ->
            row.GasProduced + row.OilProduced = 0 /\ ~row.any_well_shutin
      [] name = "shutin" ->
            row.GasProduced + row.OilProduced = 0 /\ row.any_well_shutin

\* The local variables of running_timeperiods before the first row.
TimeperiodsInit ==
    [days_col_new |-> <<>>, months_col_new |-> <<>>,
     days_counter |-> 0, months_counter |-> 0,
     start_of_new_gap |-> None, prev_last_day |-> None, gaps |-> <<>>]

\* One iteration of the loop of running_timeperiods.
TimeperiodsStep(st, row, date_col, logic) ==
    LET first_day == row[date_col]
        last_day == to_datetime(get_last_day(first_day))
        s1 == IF logic_base(logic, row)
              THEN [st EXCEPT !.days_counter = @ + last_day[3],
                              !.months_counter = @ + 1,
                              !.start_of_new_gap =
                                  IF @ = None THEN first_day ELSE @]
              ELSE [st EXCEPT !.gaps =
                                  IF st.start_of_new_gap # None
                                  THEN Append(@, <<st.start_of_new_gap,
                                                   st.prev_last_day>>)
                                  ELSE @,
                              !.days_counter = 0,
                              !.months_counter = 0,
                              !.start_of_new_gap = None]
    IN [s1 EXCEPT !.days_col_new = Append(@, s1.days_counter),
                  !.months_col_new = Append(@, s1.months_counter),
                  !.prev_last_day = last_day]

RECURSIVE TimeperiodsLoop(_, _, _, _)
\* The loop state after the first k rows of d.
TimeperiodsLoop(d, k, date_col, logic) ==
    IF k = 0 THEN TimeperiodsInit
    ELSE TimeperiodsStep(TimeperiodsLoop(d, k - 1, date_col, logic), d[k],
                         date_col, logic)

\* running_timeperiods: the report it returns (gaps_df with its totals)
running_timeperiods(d, date_col, logic) ==
    LET st == TimeperiodsLoop(d, Len(d), date_col, logic)
        gaps == IF st.start_of_new_gap # None
                THEN Append(st.gaps, <<st.start_of_new_gap, st.prev_last_day>>)
                ELSE st.gaps
    IN [i \in DOMAIN gaps |->
          [start_date |-> gaps[i][1], end_date |-> gaps[i][2],
           total_months |-> (gaps[i][2][1] - gaps[i][1][1]) * 12
                            + (gaps[i][2][2] - gaps[i][1][2]) + 1,
           total_days |-> DaysBetween(gaps[i][2], gaps[i][1]) + 1]]

\* running_timeperiods: the frame it leaves, with the two columns it was asked for
running_timeperiods_columns(d, date_col, logic, day_col_header, month_col_header) ==
    LET st == TimeperiodsLoop(d, Len(d), date_col, logic)
    IN SetColumn(SetColumn(d, day_col_header, st.days_col_new),
                 month_col_header, st.months_col_new)

-----------------------------------------------------------------------------
(* Inputs *)

Rec(w, dt, oil, gas, days, status) ==
    [api_num |-> w, FirstOfMonth |-> dt, OilProduced |-> oil,
     GasProduced |-> gas, DaysProduced |-> days, WellStatus |-> status]

\* What one well reports for one month (days given for a month of dim days).
Report(kind, dim) ==
    CASE kind = "active"       -> [oil |-> 5, gas |-> 0, days |-> dim, status |-> "PR"]
      [] kind = "idle"         -> [oil |-> 0, gas |-> 0, days |-> 0, status |-> "PR"]
      [] kind = "shutin"       -> [oil |-> 0, gas |-> 0, days |-> 0, status |-> "SI"]
      [] kind = "active_si"    -> [oil |-> 5, gas |-> 0, days |-> dim, status |-> "SI"]
      [] kind = "partial"      -> [oil |-> 5, gas |-> 0, days |-> 21, status |-> "PR"]
      [] kind = "partial_si"   -> [oil |-> 5, gas |-> 0, days |-> 21, status |-> "SI"]
      [] kind = "idle_days"    -> [oil |-> 0, gas |-> 0, days |-> 21, status |-> "PR"]
      [] kind = "rich"         -> [oil |-> 9, gas |-> 2, days |-> dim, status |-> "PR"]
      [] kind = "over"         -> [oil |-> 5, gas |-> 0, days |-> dim + 1, status |-> "PR"]

\* The record of well w for month dt (filed on day-of-month day) of kind kind.
KindRec(w, dt, day, kind) ==
    LET r == Report(kind, get_days_in_month(dt))
    IN Rec(w, <<dt[1], dt[2], day>>, r.oil, r.gas, r.days, r.status)

RECURSIVE MonthlyRecords(_, _, _)
\* One well's records for the months start, start+1, ...: plan[k] is the kind
\* reported for the k-th month, "none" for a month without a record.
MonthlyRecords(start, plan, k) ==
    IF k > Len(plan) THEN <<>>
    ELSE (IF plan[k] = "none" THEN <<>>
          ELSE <<KindRec("w1", MonthOfIndex(MonthIndex(start) + k - 1), 1, plan[k])>>)
         \o MonthlyRecords(start, plan, k + 1)

\* Every non-empty input of one well over MaxMonths months from start.
SingleWellInputs(start, kinds) ==
    {MonthlyRecords(start, plan, 1) :
        plan \in [1..MaxMonths -> kinds \cup {"none"}]} \ {<<>>}

\* Scenario A: Jan active, Feb inactive, Mar inactive, Apr active (2021).
ScenarioA ==
    MonthlyRecords(<<2021, 1, 1>>, <<"active", "idle", "idle", "active">>, 1)

\* Scenario B: Jan inactive and shut-in, Feb active.
ScenarioB == MonthlyRecords(<<2021, 1, 1>>, <<"shutin", "active">>, 1)

\* Scenario C: March 21 days, April 0 days, May 24 days of production.
ScenarioC ==
    <<Rec("w1", <<2021, 3, 1>>, 5, 0, 21, "PR"),
      Rec("w1", <<2021, 4, 1>>, 0, 0, 0, "PR"),
      Rec("w1", <<2021, 5, 1>>, 5, 0, 24, "PR")>>

\* The docstring's example: March 21 days, April 0 days, May 7 days.
ScenarioDoc ==
    <<Rec("w1", <<2021, 3, 1>>, 5, 0, 21, "PR"),
      Rec("w1", <<2021, 4, 1>>, 0, 0, 0, "PR"),
      Rec("w1", <<2021, 5, 1>>, 5, 0, 7, "PR")>>

\* Scenario E: no well has a record for February.
ScenarioE ==
    <<Rec("w1", <<2021, 1, 1>>, 5, 0, 31, "PR"),
      Rec("w2", <<2021, 3, 17>>, 5, 0, 31, "PR"),
      Rec("w2", <<2021, 1, 9>>, 0, 0, 0, "SI")>>

\* Two wells: in January one is shut-in while the other produces, in February
\* both are shut-in, for March neither has a record, in April one is shut-in.
ScenarioTwoWells ==
    <<Rec("w1", <<2021, 1, 1>>, 0, 0, 0, "SI"),
      Rec("w2", <<2021, 1, 1>>, 0, 7, 31, "PR"),
      Rec("w1", <<2021, 2, 1>>, 0, 0, 0, "SI"),
      Rec("w2", <<2021, 2, 1>>, 0, 0, 0, "SI"),
      Rec("w1", <<2021, 4, 1>>, 0, 0, 0, "SI")>>

Scenarios == {ScenarioA, ScenarioB, ScenarioC, ScenarioDoc, ScenarioE}

\* Records of up to two wells, filed on any day, in any order, months missing.
FreeRecord ==
    {KindRec(w, MonthOfIndex(MonthIndex(<<2020, 11, 1>>) + k), day, "active") :
        w \in {"w1", "w2"}, k \in 0..(MaxMonths - 1), day \in {1, 17}}

\* Records of two wells for January and March 2020: the first well produces, for
\* the whole month or a part of it, the second for a part of it or is shut-in.
AggregateRecord ==
    {KindRec("w1", dt, 1, kind) :
        dt \in {<<2020, 1, 1>>, <<2020, 3, 1>>}, kind \in {"rich", "partial"}}
    \cup
    {KindRec("w2", dt, 1, kind) :
        dt \in {<<2020, 1, 1>>, <<2020, 3, 1>>}, kind \in {"partial", "shutin"}}

RECURSIVE SeqsUpTo(_, _)
\* the sequences over S of length 1..n
SeqsUpTo(S, n) ==
    IF n = 0 THEN {}
    ELSE LET shorter == SeqsUpTo(S, n - 1)
         IN {<<x>> : x \in S} \cup shorter
            \cup {Append(q, x) : q \in shorter, x \in S}

AggregateInputs == SeqsUpTo(AggregateRecord, MaxRecords)

FreeInputs == SeqsUpTo(FreeRecord, MaxRecords)

\* Arguments a caller passes
ColumnArgs == {<<NoCol, NoCol>>, <<"running_days", "running_months">>}

ConsiderProductionArgs == {None, <<TRUE>>, <<FALSE>>}

ThresholdArgs == {0, 31, 60}

-----------------------------------------------------------------------------
(* The state machine *)

InitWith(inputs, configs) ==
    /\ df \in inputs
    /\ cfg \in configs
    /\ prod_df = <<>>
    /\ built = FALSE
    /\ call = None
    /\ gaps_df = <<>>
    /\ repeat = "no"
    /\ output = <<>>

\* ProductionChecker(df, ...): __init__
Construct ==
    /\ ~built
    /\ built' = TRUE
    /\ prod_df' = group_by_month(cfg, df)
    /\ df' = df_after_init(cfg, df)
    /\ UNCHANGED <<cfg, call, gaps_df, repeat, output>>

\* Whether two detection calls run the same algorithm with the same parameters
\* (the headers of the annotation columns aside).
SameArgs(a, b) ==
    /\ a.name = b.name
    /\ a.shutin_as_producing = b.shutin_as_producing
    /\ a.consider_production = b.consider_production

\* What a detection call leaves with the caller: the report it returned, and
\* whether it repeated the call before it ("annotated": that call added columns).
Returned(c, report) ==
    /\ call' = c
    /\ gaps_df' = report
    /\ repeat' = IF call # None /\ SameArgs(call, c)
                 THEN (IF call.new_days_col # NoCol THEN "annotated" ELSE "same")
                 ELSE "no"
    /\ output' = <<>>
    /\ UNCHANGED <<df, cfg, built>>

\* checker.gaps_by_production_threshold(shutin_as_producing, new_days_col, new_months_col)
GapsByProductionThreshold ==
    /\ built
    /\ \E shutin_as_producing \in BOOLEAN, cols \in ColumnArgs :
          LET st == ThresholdLoop(cfg, prod_df, Len(prod_df), shutin_as_producing)
          IN /\ prod_df' = AddColumns(prod_df, st, cols[1], cols[2])
             /\ Returned([name |-> "gaps_by_production_threshold",
                          shutin_as_producing |-> shutin_as_producing,
                          consider_production |-> None,
                          new_days_col |-> cols[1], new_months_col |-> cols[2]],
                         _gaps_to_dataframe(CloseOpenGap(st)))

\* checker.gaps_by_producing_days(shutin_as_producing, consider_production, ...)
GapsByProducingDays ==
    /\ built
    /\ \E shutin_as_producing \in BOOLEAN, arg \in ConsiderProductionArgs,
          cols \in ColumnArgs :
          LET st == DaysLoop(cfg, prod_df, Len(prod_df), shutin_as_producing,
                             ResolveConsiderProduction(cfg, arg))
          IN /\ prod_df' = AddColumns(prod_df, st, cols[1], cols[2])
             /\ Returned([name |-> "gaps_by_producing_days",
                          shutin_as_producing |-> shutin_as_producing,
                          consider_production |-> arg,
                          new_days_col |-> cols[1], new_months_col |-> cols[2]],
                         _gaps_to_dataframe(CloseOpenGap(st)))

\* output_gaps_as_string(gaps_df, threshold_days=...), of ProductionChecker or of
\* cogcc_checker
OutputGapsAsString ==
    /\ call # None
    /\ \E threshold_days \in ThresholdArgs, module \in {"production_checker", "cogcc_checker"} :
          output' = IF module = "production_checker"
                    THEN output_gaps_as_string(gaps_df, "Gaps:", threshold_days)
                    ELSE cogcc_output_gaps_as_string(gaps_df, "Gaps:", threshold_days)
    /\ UNCHANGED <<df, cfg, prod_df, built, call, gaps_df, repeat>>

\* cogcc_checker.main over the records loaded from the .xls files: the monthly
\* summary, the three reports, and the sections of the text summary.
Main ==
    /\ ~built
    /\ built' = TRUE
    /\ LET prod_gb == cogcc_groupby(df)
           step1 == running_timeperiods_columns(prod_gb, "FirstOfMonth",
                        "production_raw", "days_nonprod_raw", "months_nonprod_raw")
           step2 == running_timeperiods_columns(step1, "FirstOfMonth",
                        "production", "days_nonprod", "months_nonprod")
           step3 == running_timeperiods_columns(step2, "FirstOfMonth",
                        "shutin", "days_shutin", "months_shutin")
           nonprods_raw_df == running_timeperiods(prod_gb, "FirstOfMonth", "production_raw")
           nonprods_df == running_timeperiods(step1, "FirstOfMonth", "production")
           shutin_df == running_timeperiods(step2, "FirstOfMonth", "shutin")
       IN /\ prod_df' = step3
          /\ gaps_df' = [nonprods_raw_df |-> nonprods_raw_df,
                         nonprods_df |-> nonprods_df,
                         shutin_df |-> shutin_df]
          /\ output' = [nonprods_raw_df |->
                            cogcc_output_gaps_as_string(nonprods_raw_df,
                                "Gaps in production (raw):",
                                MIN_DAYS_PRODUCTION_CESSATION),
                        nonprods_df |->
                            cogcc_output_gaps_as_string(nonprods_df,
                                "Gaps in production (with shut-ins counting as production):",
                                MIN_DAYS_PRODUCTION_CESSATION),
                        shutin_df |->
                            cogcc_output_gaps_as_string(shutin_df,
                                "Periods of shut-in:", MIN_DAYS_SHUTIN_PERIOD)]
    /\ call' = [name |-> "main"]
    /\ UNCHANGED <<df, cfg, repeat>>

\* Every detection algorithm, on the inputs of one well and on the scenarios.
Init ==
    InitWith(SingleWellInputs(<<2019, 12, 1>>, {"active", "idle"}) \cup Scenarios,
             {FullConfig})

Next ==
    \/ Construct
    \/ GapsByProductionThreshold
    \/ GapsByProducingDays
    \/ OutputGapsAsString

Spec == Init /\ [][Next]_vars

\* The threshold-based detection and the text report, on wider inputs.
InitThreshold ==
    InitWith(SingleWellInputs(<<2019, 12, 1>>,
                              {"active", "idle", "shutin", "active_si"})
                 \cup {ScenarioA, ScenarioB},
             {FullConfig})

NextThreshold ==
    \/ Construct
    \/ GapsByProductionThreshold
    \/ OutputGapsAsString

SpecThreshold == InitThreshold /\ [][NextThreshold]_vars

\* The days-based detection, on inputs with partial months.
InitDays ==
    InitWith(SingleWellInputs(<<2019, 12, 1>>, {"active", "idle", "partial"})
                 \cup {ScenarioC, ScenarioDoc, ScenarioE},
             {FullConfig})

NextDays ==
    \/ Construct
    \/ GapsByProducingDays

SpecDays == InitDays /\ [][NextDays]_vars

\* The Timeline builder alone, on free-form inputs.
InitBuild == InitWith(FreeInputs \cup {ScenarioE}, {FullConfig})

NextBuild == Construct

SpecBuild == InitBuild /\ [][NextBuild]_vars

\* The COGCC checker, on the records of one well and of two wells.
InitShutin ==
    InitWith(SingleWellInputs(<<2019, 12, 1>>,
                              {"active", "idle", "shutin", "active_si"})
                 \cup {ScenarioB, ScenarioTwoWells},
             {FullConfig})

NextShutin == Main

SpecShutin == InitShutin /\ [][NextShutin]_vars

\* Construction and threshold-based detection under every kind of configuration.
InitConfig ==
    InitWith(SingleWellInputs(<<2019, 12, 1>>, {"active", "idle", "shutin"}),
             {FullConfig, DateOnlyConfig, DaysOnlyConfig})

NextConfig ==
    \/ Construct
    \/ GapsByProductionThreshold

SpecConfig == InitConfig /\ [][NextConfig]_vars

\* The days-based detection on months that are shut-in, whatever days they report.
InitDaysShutin ==
    InitWith(SingleWellInputs(<<2019, 12, 1>>, {"idle", "shutin", "partial_si"})
                 \cup {ScenarioB, ScenarioE, ScenarioTwoWells},
             {FullConfig})

NextDaysShutin ==
    \/ Construct
    \/ GapsByProducingDays

SpecDaysShutin == InitDaysShutin /\ [][NextDaysShutin]_vars

\* The days-based detection on months without production for which days of
\* production are reported.
InitDaysProduction ==
    InitWith(SingleWellInputs(<<2019, 12, 1>>, {"active", "idle", "idle_days"})
                 \cup {ScenarioE},
             {FullConfig})

NextDaysProduction ==
    \/ Construct
    \/ GapsByProducingDays

SpecDaysProduction == InitDaysProduction /\ [][NextDaysProduction]_vars

\* The aggregation of the records of two wells, with and without minimum volumes.
InitAggregate == InitWith(AggregateInputs, {FullConfig, OilMinConfig})

NextAggregate == Construct

SpecAggregate == InitAggregate /\ [][NextAggregate]_vars

\* Both detections of ProductionChecker, on records that may report more days of
\* production than their month has.
InitDetect ==
    InitWith(SingleWellInputs(<<2019, 12, 1>>, {"idle", "partial", "over"})
                 \cup {ScenarioC, ScenarioDoc},
             {FullConfig})

NextDetect ==
    \/ Construct
    \/ GapsByProductionThreshold
    \/ GapsByProducingDays

SpecDetect == InitDetect /\ [][NextDetect]_vars

\* gaps_by_production_threshold of a checker that was constructed (main builds none)
ThresholdOfChecker ==
    /\ IF call = None THEN TRUE ELSE call.name # "main"
    /\ GapsByProductionThreshold

\* The same records through either program: a ProductionChecker and its
\* threshold-based detection, or cogcc_checker.main.
InitRunning ==
    InitWith(SingleWellInputs(<<2019, 12, 1>>,
                              {"active", "idle", "shutin", "active_si"})
                 \cup {ScenarioA, ScenarioB, ScenarioTwoWells},
             {FullConfig})

NextRunning ==
    \/ Construct
    \/ ThresholdOfChecker
    \/ Main

SpecRunning == InitRunning /\ [][NextRunning]_vars

-----------------------------------------------------------------------------
(* Vocabulary of the properties *)

IsThresholdCall == call # None /\ call.name = "gaps_by_production_threshold"

IsDaysCall == call # None /\ call.name = "gaps_by_producing_days"

\* The month of Timeline row k lies inside interval i of the report.
MonthInGap(k, i) ==
    /\ DateLeq(gaps_df[i].start_date, prod_df[k].FirstOfMonth)
    /\ DateLeq(last_day_of_month(prod_df[k].FirstOfMonth), gaps_df[i].end_date)

\* The gap test of the threshold-based detection, as the specification words it.
IsGapMonth(row, shutin_as_producing) ==
    ~row.any_active /\ (~shutin_as_producing \/ ~row.any_shutin)

\* Row k is a gap month under the arguments of the most recent call.
GapRowAt(k) == IsGapMonth(prod_df[k], call.shutin_as_producing)

\* Row k starts a maximal run of gap months; RunEnd(k) is the last row of that run.
StartsRun(k) == GapRowAt(k) /\ (k = 1 \/ ~GapRowAt(k - 1))

RunEnd(k) ==
    CHOOSE j \in k..Len(prod_df) :
        /\ \A m \in k..j : GapRowAt(m)
        /\ (j = Len(prod_df) \/ ~GapRowAt(j + 1))

\* C1: the intervals returned by gaps_by_production_threshold are in
\* chronological order and pairwise disjoint, each starts on the first day of a
\* month and ends on the last day of a month, a month of the Timeline lies inside
\* an interval iff it is a gap month, and two consecutive intervals are separated
\* by at least one non-gap month.
C1_ThresholdIntervals ==
    IsThresholdCall =>
        /\ \A i \in DOMAIN gaps_df :
              /\ gaps_df[i].start_date[3] = 1
              /\ gaps_df[i].end_date = last_day_of_month(gaps_df[i].end_date)
              /\ DateLeq(gaps_df[i].start_date, gaps_df[i].end_date)
        /\ \A i \in 1..(Len(gaps_df) - 1) :
              /\ DateLt(gaps_df[i].end_date, gaps_df[i + 1].start_date)
              /\ \E k \in DOMAIN prod_df :
                    /\ ~GapRowAt(k)
                    /\ DateLt(gaps_df[i].end_date, prod_df[k].FirstOfMonth)
                    /\ DateLt(prod_df[k].FirstOfMonth, gaps_df[i + 1].start_date)
        /\ \A k \in DOMAIN prod_df :
              GapRowAt(k) <=> \E i \in DOMAIN gaps_df : MonthInGap(k, i)

\* Two intervals were returned, with a producing month between them.
C1_Witness ==
    /\ IsThresholdCall
    /\ Len(gaps_df) = 2
    /\ \E k \in DOMAIN prod_df : ~GapRowAt(k)

\* C2: a run of gap months that begins at the first row is emitted with
\* start_date equal to the first row's date, a run still open at the last row is
\* emitted with end_date equal to the last calendar day of the last row's month,
\* and no run of gap months is missing, also when every month is a gap month.
C2_ThresholdBoundaries ==
    IsThresholdCall =>
        /\ GapRowAt(1) =>
              /\ Len(gaps_df) >= 1
              /\ gaps_df[1].start_date = prod_df[1].FirstOfMonth
        /\ GapRowAt(Len(prod_df)) =>
              /\ Len(gaps_df) >= 1
              /\ gaps_df[Len(gaps_df)].end_date =
                     last_day_of_month(prod_df[Len(prod_df)].FirstOfMonth)
        /\ Len(gaps_df) = Cardinality({k \in DOMAIN prod_df : StartsRun(k)})
        /\ \A k \in DOMAIN prod_df :
              StartsRun(k) =>
                  \E i \in DOMAIN gaps_df :
                      /\ gaps_df[i].start_date = prod_df[k].FirstOfMonth
                      /\ gaps_df[i].end_date =
                             last_day_of_month(prod_df[RunEnd(k)].FirstOfMonth)

\* Every month of a Timeline of several months is a gap month, and the one
\* interval runs from the first row's date to the last row's last day.
C2_Witness ==
    /\ IsThresholdCall
    /\ Len(prod_df) >= 2
    /\ \A k \in DOMAIN prod_df : GapRowAt(k)
    /\ Len(gaps_df) = 1
    /\ gaps_df[1].start_date = prod_df[1].FirstOfMonth
    /\ gaps_df[1].end_date = last_day_of_month(prod_df[Len(prod_df)].FirstOfMonth)

\* C3: gaps_by_production_threshold counts a month as a gap month exactly when
\* any_active is false and (shutin_as_producing is false or any_shutin is false):
\* the running month counter it records for a row is positive exactly then; and
\* for [Jan: inactive and shut-in, Feb: active] it returns no gap with
\* shutin_as_producing=True and exactly the gap Jan 1 to Jan 31 with False.
C3_GapPredicate ==
    IsThresholdCall =>
        /\ call.new_months_col # NoCol =>
              \A k \in DOMAIN prod_df :
                  (prod_df[k][call.new_months_col] > 0) <=>
                      (~prod_df[k].any_active
                       /\ (~call.shutin_as_producing \/ ~prod_df[k].any_shutin))
        /\ (df = ScenarioB /\ call.shutin_as_producing) => gaps_df = <<>>
        /\ (df = ScenarioB /\ ~call.shutin_as_producing) =>
              /\ Len(gaps_df) = 1
              /\ gaps_df[1].start_date = <<2021, 1, 1>>
              /\ gaps_df[1].end_date = <<2021, 1, 31>>

\* Scenario B was run with shut-in counting as production, with the counters kept.
C3_Witness ==
    /\ IsThresholdCall
    /\ df = ScenarioB
    /\ call.shutin_as_producing
    /\ call.new_months_col # NoCol
    /\ prod_df[1].any_shutin /\ ~prod_df[1].any_active
    /\ gaps_df = <<>>

\* C4: in every row of a report, whichever detection produced it, total_days is
\* (end_date - start_date) in days plus 1 and total_months is
\* (end.year*12 + end.month) - (start.year*12 + start.month) + 1; for
\* [Jan: active, Feb: inactive, Mar: inactive, Apr: active] of a non-leap year
\* gaps_by_production_threshold reports exactly one gap, Feb 1 to Mar 31, of
\* 59 days and 2 months.
C4_Totals ==
    /\ \A i \in DOMAIN gaps_df :
          /\ gaps_df[i].total_days =
                 ToOrdinal(gaps_df[i].end_date) - ToOrdinal(gaps_df[i].start_date) + 1
          /\ gaps_df[i].total_months =
                 MonthIndex(gaps_df[i].end_date) - MonthIndex(gaps_df[i].start_date) + 1
    /\ (IsThresholdCall /\ df = ScenarioA) =>
          gaps_df = <<[start_date |-> <<2021, 2, 1>>, end_date |-> <<2021, 3, 31>>,
                       total_months |-> 2, total_days |-> 59]>>

\* Scenario A was run through gaps_by_production_threshold.
C4_Witness ==
    /\ IsThresholdCall
    /\ df = ScenarioA
    /\ Len(gaps_df) = 1
    /\ gaps_df[1].total_days = 59

\* The loop state of the most recent gaps_by_producing_days call after k rows.
DaysCallLoop(k) ==
    DaysLoop(cfg, prod_df, k, call.shutin_as_producing,
             ResolveConsiderProduction(cfg, call.consider_production))

\* The days of production the most recent gaps_by_producing_days call takes for row k.
DaysCallProducing(k) ==
    EffectiveDays(cfg, prod_df[k], call.shutin_as_producing,
                  ResolveConsiderProduction(cfg, call.consider_production))[1]

\* C5: in gaps_by_producing_days a month with partial production
\* (0 < days_producing < days-in-month) reached while no gap is open opens a gap
\* whose start_date is (last day of that month - days_not_producing + 1); reached
\* while a gap is open, it closes that gap with
\* end_date = (first day of that month + days_not_producing - 1).
C5_PartialMonth ==
    IsDaysCall =>
        \A k \in DOMAIN prod_df :
            LET first_day == prod_df[k].FirstOfMonth
                days_in_month == get_days_in_month(first_day)
                days_producing == DaysCallProducing(k)
                days_not_producing == days_in_month - days_producing
                before == DaysCallLoop(k - 1)
                after == DaysCallLoop(k)
            IN (0 < days_producing /\ days_producing < days_in_month) =>
                  IF before.gap_start_date = None
                  THEN after.gap_start_date =
                           AddDays(last_day_of_month(first_day), 1 - days_not_producing)
                  ELSE after.gaps =
                           Append(before.gaps,
                                  <<before.gap_start_date,
                                    AddDays(first_day, days_not_producing - 1)>>)

HasRecord(k) ==
    \E i \in DOMAIN df :
        MonthIndex(df[i].FirstOfMonth) = MonthIndex(prod_df[k].FirstOfMonth)

\* C7: the Timeline has exactly one row per calendar month, consecutive rows'
\* dates differ by exactly one calendar month, every date is the first of its
\* month, the first row is the earliest input month and the last row the latest.
C7_Timeline ==
    built =>
        LET months == {MonthIndex(df[i].FirstOfMonth) : i \in DOMAIN df}
            lo == CHOOSE a \in months : \A b \in months : a <= b
            hi == CHOOSE a \in months : \A b \in months : b <= a
        IN /\ Len(prod_df) = hi - lo + 1
           /\ \A k \in DOMAIN prod_df :
                 /\ prod_df[k].FirstOfMonth[3] = 1
                 /\ MonthIndex(prod_df[k].FirstOfMonth) = lo + k - 1

\* Several months were built from records of two wells, filed out of order and
\* not on the first of the month, with a month in between that has no record.
C7_Witness ==
    /\ built
    /\ Len(prod_df) >= 3
    /\ \E k \in DOMAIN prod_df : ~HasRecord(k)
    /\ \E i \in DOMAIN df : df[i].FirstOfMonth[3] # 1
    /\ \E i, j \in DOMAIN df :
          /\ i < j
          /\ DateLt(df[j].FirstOfMonth, df[i].FirstOfMonth)
          /\ df[i].api_num # df[j].api_num

\* C8: a month between the first and last input months for which no well has a
\* record appears as a Timeline row with zero production, not active and not
\* shut-in, and every detection classifies that month as a gap month.
C8_MissingMonth ==
    built =>
        \A k \in DOMAIN prod_df :
            ~HasRecord(k) =>
                /\ prod_df[k].OilProduced = 0
                /\ prod_df[k].GasProduced = 0
                /\ ~prod_df[k].any_active
                /\ ~prod_df[k].any_shutin
                /\ call # None => \E i \in DOMAIN gaps_df : MonthInGap(k, i)

C10_OutputLines ==
    output # <<>> =>
        LET threshold_days == output[2][2]
            lines == SubSeq(output, 3, Len(output))
            keep == SelectSeq(gaps_df, LAMBDA r : r.total_days >= threshold_days)
        IN IF keep = <<>>
           THEN Len(lines) = 1 /\ Len(lines[1]) = 1 /\ lines[1] = NoneLine
           ELSE /\ Len(lines) = Len(keep)
                /\ \A j \in DOMAIN lines :
                      /\ Len(lines[j]) = 9
                      /\ lines[j][2] = keep[j].total_days
                      /\ lines[j][4] = keep[j].total_months
                      /\ lines[j][7] = keep[j].start_date
                      /\ lines[j][9] = keep[j].end_date

\* Of two gaps one was left out: it is shorter than the threshold of 31 days,
\* which the other just meets.
C10_Witness ==
    /\ output # <<>>
    /\ output[2][2] = 31
    /\ Len(gaps_df) = 2
    /\ Len(output) = 3
    /\ Len(output[3]) = 9
    /\ output[3][2] = 31


-----------------------------------------------------------------------------
(* Shut-in periods of the COGCC checker *)

IsMainCall == call # None /\ call.name = "main"

\* The input records filed for the month of Timeline row k.
RecordsOf(k) ==
    {i \in DOMAIN df :
        MonthIndex(df[i].FirstOfMonth) = MonthIndex(prod_df[k].FirstOfMonth)}

\* Some well reports the shut-in status for the month of row k, and no well
\* reports production for it (the threshold of the COGCC checker is any production).
ShutinMonthAt(k) ==
    /\ \E i \in RecordsOf(k) : df[i].WellStatus = "SI"
    /\ ~\E i \in RecordsOf(k) : df[i].OilProduced > 0 \/ df[i].GasProduced > 0

StartsShutinRun(k) == ShutinMonthAt(k) /\ (k = 1 \/ ~ShutinMonthAt(k - 1))

ShutinRunEnd(k) ==
    CHOOSE j \in k..Len(prod_df) :
        /\ \A m \in k..j : ShutinMonthAt(m)
        /\ (j = Len(prod_df) \/ ~ShutinMonthAt(j + 1))

-----------------------------------------------------------------------------
(* Construction without production or status columns *)

\* Neither an oil column, a gas column nor a status column is configured.
NothingToAggregate ==
    cfg.oil_prod_col = NoCol /\ cfg.gas_prod_col = NoCol /\ cfg.status_col = NoCol

\* C12 as stated: with neither an oil, a gas nor a status column configured the
\* construction fails, so no Timeline is ever built and no report is returned.
C12_ConfigurationError ==
    NothingToAggregate => (~built /\ prod_df = <<>> /\ call = None /\ gaps_df = <<>>)

\* C12 as amended: with neither an oil, a gas nor a status column configured the
\* construction succeeds; the Timeline has its row for every month from the
\* first to the last input month, no month of it is active or shut-in, and the
\* threshold-based detection reports the whole Timeline as one gap.
C12_NothingConfigured ==
    (NothingToAggregate /\ built) =>
        /\ Len(prod_df) >= 1
        /\ \A i \in DOMAIN df : \E k \in DOMAIN prod_df : i \in RecordsOf(k)
        /\ \A k \in DOMAIN prod_df :
              /\ MonthIndex(prod_df[k].FirstOfMonth)
                     = MonthIndex(prod_df[1].FirstOfMonth) + k - 1
              /\ ~prod_df[k].any_active /\ ~prod_df[k].any_shutin
              /\ prod_df[k].num_active = 0 /\ prod_df[k].num_shutin = 0
        /\ IsThresholdCall =>
              /\ Len(gaps_df) = 1
              /\ gaps_df[1].start_date = prod_df[1].FirstOfMonth
              /\ gaps_df[1].end_date =
                     last_day_of_month(prod_df[Len(prod_df)].FirstOfMonth)

\* A checker with only its date column configured was built over records that
\* report production, and the threshold-based detection returned its report.
C12_Witness ==
    /\ NothingToAggregate
    /\ built
    /\ IsThresholdCall
    /\ Len(prod_df) = 3
    /\ \E i \in DOMAIN df : df[i].OilProduced > 0
    /\ Len(gaps_df) = 1

-----------------------------------------------------------------------------
(* The overrides of the days-based detection *)

\* Some interval of the report has a day in the month of Timeline row k.
MonthTouchesGap(k) ==
    \E i \in DOMAIN gaps_df :
        /\ DateLeq(gaps_df[i].start_date, last_day_of_month(prod_df[k].FirstOfMonth))
        /\ DateLeq(prod_df[k].FirstOfMonth, gaps_df[i].end_date)

\* The whole month of Timeline row k lies inside an interval of the report.
MonthWhollyInGap(k) == \E i \in DOMAIN gaps_df : MonthInGap(k, i)

\* Some well reports a shut-in status for the month of row k.
AnyWellShutin(k) == \E i \in RecordsOf(k) : df[i].WellStatus = "SI"

\* C13: in gaps_by_producing_days with shutin_as_producing true, a month in which
\* any well is shut-in is never inside a gap whatever days were reported for it,
\* it closes a gap that is open at the last day of the month before, and the
\* running day and month counters are 0 at that row.
C13_ShutinAsProducing ==
    (IsDaysCall /\ call.shutin_as_producing) =>
        \A k \in DOMAIN prod_df :
            AnyWellShutin(k) =>
                LET before == DaysCallLoop(k - 1)
                    after == DaysCallLoop(k)
                IN /\ ~MonthTouchesGap(k)
                   /\ before.gap_start_date # None =>
                         /\ after.gaps =
                                Append(before.gaps,
                                       <<before.gap_start_date,
                                         last_day_of_month(prod_df[k - 1].FirstOfMonth)>>)
                         /\ \E i \in DOMAIN gaps_df :
                               /\ gaps_df[i].start_date = before.gap_start_date
                               /\ gaps_df[i].end_date =
                                      last_day_of_month(prod_df[k - 1].FirstOfMonth)
                   /\ after.gap_start_date = None
                   /\ after.days_counter = 0 /\ after.months_counter = 0
                   /\ after.running_days_vals[k] = 0
                   /\ after.running_months_vals[k] = 0
                   /\ call.new_days_col # NoCol =>
                         /\ prod_df[k][call.new_days_col] = 0
                         /\ prod_df[k][call.new_months_col] = 0

\* A shut-in month for which 21 days of production were reported followed a
\* month without production: it closed the gap, and the columns show the reset.
C13_Witness ==
    /\ IsDaysCall
    /\ call.shutin_as_producing
    /\ call.new_days_col # NoCol
    /\ \E k \in DOMAIN prod_df :
          /\ k > 1
          /\ AnyWellShutin(k)
          /\ prod_df[k].max_days_producing = 21
          /\ prod_df[k - 1][call.new_months_col] = 1
          /\ \E i \in DOMAIN gaps_df :
                gaps_df[i].end_date = last_day_of_month(prod_df[k - 1].FirstOfMonth)

\* Whether the most recent call considers production: as asked, and when not
\* said, if an oil or a gas column is configured.
CallConsidersProduction ==
    IF call.consider_production = None
    THEN cfg.oil_prod_col # NoCol \/ cfg.gas_prod_col # NoCol
    ELSE call.consider_production[1]

\* C14: in gaps_by_producing_days, for a month that is not shut-in-as-producing:
\* with consider_production enabled (the default when an oil or gas column is
\* configured) a month whose any_active flag is false is a whole gap month
\* whatever days were reported (one more running month, all its days running
\* days); with consider_production disabled the reported days decide: the month
\* is a whole gap month iff 0 days of production were reported for it.
C14_ConsiderProduction ==
    IsDaysCall =>
        \A k \in DOMAIN prod_df :
            ~(call.shutin_as_producing /\ AnyWellShutin(k)) =>
                LET before == DaysCallLoop(k - 1)
                    after == DaysCallLoop(k)
                    days_in_month == get_days_in_month(prod_df[k].FirstOfMonth)
                IN IF CallConsidersProduction
                   THEN ~prod_df[k].any_active =>
                           /\ MonthWhollyInGap(k)
                           /\ after.months_counter = before.months_counter + 1
                           /\ after.days_counter = before.days_counter + days_in_month
                   ELSE /\ MonthWhollyInGap(k) <=> prod_df[k].max_days_producing = 0
                        /\ after.months_counter =
                               IF prod_df[k].max_days_producing = 0
                               THEN before.months_counter + 1 ELSE 0

\* The same Timeline holds a month without production for which 21 days were
\* reported; the call took the default for consider_production and put that
\* month inside a gap.
C14_Witness ==
    /\ IsDaysCall
    /\ call.consider_production = None
    /\ ~call.shutin_as_producing
    /\ \E k \in DOMAIN prod_df :
          /\ ~prod_df[k].any_active
          /\ prod_df[k].max_days_producing = 21
          /\ MonthWhollyInGap(k)

-----------------------------------------------------------------------------
(* Aggregation by month *)

\* Record i meets the production threshold: a volume that reaches its configured
\* minimum and is more than nothing.
MeetsThreshold(i) ==
    \/ df[i].OilProduced >= cfg.oil_prod_min /\ df[i].OilProduced > 0
    \/ df[i].GasProduced >= cfg.gas_prod_min /\ df[i].GasProduced > 0

\* Record i reports a configured shut-in code.
ReportsShutin(i) == df[i].WellStatus \in cfg.shutin_codes[1]

RECURSIVE TotalOf(_, _)
\* The sum of column col over the records S.
TotalOf(col, S) ==
    IF S = {} THEN 0
    ELSE LET i == CHOOSE x \in S : TRUE IN df[i][col] + TotalOf(col, S \ {i})

\* The days_not_producing of input record i, as computed for its row.
RecordDaysNotProducing(i) ==
    row_num_unproducing_days(cfg, [df[i] EXCEPT !.FirstOfMonth = first_day_of_month(@)])

\* The input records with records j and j + 1 in each other's place.
Swapped(j) ==
    [i \in DOMAIN df |-> IF i = j THEN df[j + 1] ELSE IF i = j + 1 THEN df[j] ELSE df[i]]

\* C15: for every month of the Timeline, any_active is true iff some record of
\* the month meets the production threshold and num_active counts these records;
\* any_shutin and num_shutin likewise for the shut-in status; the oil and gas
\* totals are the sums over the month's records; days_producing is the maximum and
\* days_not_producing the minimum over the month's records. Swapping two input
\* records gives the same Timeline.
C15_Aggregates ==
    built =>
        /\ \A k \in DOMAIN prod_df :
              LET R == RecordsOf(k)
                  row == prod_df[k]
              IN /\ row.any_active <=> \E i \in R : MeetsThreshold(i)
                 /\ row.num_active = Cardinality({i \in R : MeetsThreshold(i)})
                 /\ row.any_shutin <=> \E i \in R : ReportsShutin(i)
                 /\ row.num_shutin = Cardinality({i \in R : ReportsShutin(i)})
                 /\ row.OilProduced = TotalOf("OilProduced", R)
                 /\ row.GasProduced = TotalOf("GasProduced", R)
                 /\ R # {} =>
                       /\ \E i \in R : row.max_days_producing = df[i].DaysProduced
                       /\ \A i \in R : row.max_days_producing >= df[i].DaysProduced
                       /\ \E i \in R : row.min_days_not_producing = RecordDaysNotProducing(i)
                       /\ \A i \in R : row.min_days_not_producing <= RecordDaysNotProducing(i)
        /\ \A j \in 1..(Len(df) - 1) : group_by_month(cfg, Swapped(j)) = prod_df

\* A month has the records of two wells, the smaller volume and the fewer days
\* filed first, and only one of the two records meets the minimum volumes.
C15_Witness ==
    /\ built
    /\ cfg = OilMinConfig
    /\ \E k \in DOMAIN prod_df :
          \E i, j \in RecordsOf(k) :
             /\ i < j
             /\ df[i].DaysProduced < df[j].DaysProduced
             /\ ~MeetsThreshold(i) /\ MeetsThreshold(j)
             /\ prod_df[k].num_active = 1
             /\ prod_df[k].OilProduced = 14

\* C16: for every record days_not_producing is days-in-month minus
\* days_producing, so it lies between 0 and days-in-month; for a month for which no
\* days-produced value is reported it is days-in-month.
C16_DaysNotProducing ==
    built =>
        /\ \A i \in DOMAIN df :
              LET days_in_month == get_days_in_month(df[i].FirstOfMonth)
                  days_not_producing == RecordDaysNotProducing(i)
              IN /\ days_not_producing = days_in_month - df[i].DaysProduced
                 /\ 0 <= days_not_producing /\ days_not_producing <= days_in_month
                 /\ df[i].DaysProduced + days_not_producing = days_in_month
        /\ \A k \in DOMAIN prod_df :
              RecordsOf(k) = {} =>
                 prod_df[k].min_days_not_producing
                     = get_days_in_month(prod_df[k].FirstOfMonth)

-----------------------------------------------------------------------------
(* Totals of the days-based report *)

\* The Timeline rows with a day inside interval i of the report.
MonthsOfGap(i) ==
    {k \in DOMAIN prod_df :
        /\ DateLeq(gaps_df[i].start_date, last_day_of_month(prod_df[k].FirstOfMonth))
        /\ DateLeq(prod_df[k].FirstOfMonth, gaps_df[i].end_date)}

\* The most recent gaps_by_producing_days call takes row k as a month of partial
\* production.
PartialMonthAt(k) ==
    /\ 0 < DaysCallProducing(k)
    /\ DaysCallProducing(k) < get_days_in_month(prod_df[k].FirstOfMonth)

\* C17: in the report of gaps_by_producing_days the total_months of a gap counts
\* the months of the gap with exactly 0 days of production, and no other; a month
\* of partial production next to such a month is part of the gap by its days (the
\* gap begins, or ends, inside it) without being counted in total_months.
C17_TotalMonths ==
    IsDaysCall =>
        /\ \A i \in DOMAIN gaps_df :
              gaps_df[i].total_months =
                  Cardinality({k \in MonthsOfGap(i) : DaysCallProducing(k) = 0})
        /\ \A k \in DOMAIN prod_df :
              (/\ k < Len(prod_df)
               /\ PartialMonthAt(k)
               /\ DaysCallProducing(k + 1) = 0
               /\ DaysCallLoop(k - 1).gap_start_date = None) =>
                  \E i \in DOMAIN gaps_df :
                     /\ {k, k + 1} \subseteq MonthsOfGap(i)
                     /\ DateLt(prod_df[k].FirstOfMonth, gaps_df[i].start_date)

-----------------------------------------------------------------------------
(* What construction and detection leave alone *)

\* The dates and the aggregate columns of the Timeline.
CoreColumns ==
    {"FirstOfMonth", ANY_ACTIVE, ANY_SHUTIN, "num_active", "num_shutin",
     "OilProduced", "GasProduced", DAYS_PRODUCING, DAYS_NOT_PRODUCING}

\* The annotation columns the call that has just returned was asked for.
RequestedColumns == {call'.new_days_col, call'.new_months_col} \ {NoCol}

-----------------------------------------------------------------------------
(* Well-formed intervals *)

\* C19: every interval of a report of gaps_by_production_threshold or of
\* gaps_by_producing_days has start_date <= end_date, also an interval that
\* begins or ends inside a month and the interval closed at the end of the data.
C19_StartBeforeEnd ==
    (IsThresholdCall \/ IsDaysCall) =>
        \A i \in DOMAIN gaps_df : DateLeq(gaps_df[i].start_date, gaps_df[i].end_date)

\* The days-based report holds an interval that begins inside a month and one
\* that ends inside a month, and the last interval was closed at the end of the data.
C19_Witness ==
    /\ IsDaysCall
    /\ \E i \in DOMAIN gaps_df : gaps_df[i].start_date[3] # 1
    /\ \E i \in DOMAIN gaps_df :
          gaps_df[i].end_date # last_day_of_month(gaps_df[i].end_date)
    /\ gaps_df[Len(gaps_df)].end_date
           = last_day_of_month(prod_df[Len(prod_df)].FirstOfMonth)
    /\ DaysCallLoop(Len(prod_df)).gap_start_date # None

\* C20: gaps_by_producing_days emits each gap once: the intervals of its report
\* are in chronological order and disjoint, no two of them start on the same
\* date, and the row that closes a gap leaves no gap open and both running
\* counters at 0.
C20_EachGapOnce ==
    IsDaysCall =>
        /\ \A i, j \in DOMAIN gaps_df :
              i < j => /\ gaps_df[i].start_date # gaps_df[j].start_date
                       /\ DateLt(gaps_df[i].end_date, gaps_df[j].start_date)
        /\ \A k \in DOMAIN prod_df :
              LET before == DaysCallLoop(k - 1)
                  after == DaysCallLoop(k)
              IN Len(after.gaps) > Len(before.gaps) =>
                    /\ after.gap_start_date = None
                    /\ after.days_counter = 0
                    /\ after.months_counter = 0

-----------------------------------------------------------------------------
(* Running counters *)

\* The running counters days and months (one value per Timeline row) are those
\* of the report: 0 on a row outside every interval; on a row inside an interval
\* the days and the months from the interval's start_date through the row's last
\* day, which on the interval's last row are its total_days and total_months.
CountersFollow(report, days, months) ==
    /\ Len(days) = Len(prod_df) /\ Len(months) = Len(prod_df)
    /\ \A k \in DOMAIN prod_df :
          LET first_day == prod_df[k].FirstOfMonth
              last_day == last_day_of_month(first_day)
              inside == {i \in DOMAIN report :
                            /\ DateLeq(report[i].start_date, first_day)
                            /\ DateLeq(last_day, report[i].end_date)}
          IN IF inside = {}
             THEN days[k] = 0 /\ months[k] = 0
             ELSE \A i \in inside :
                     /\ days[k] = DaysBetween(last_day, report[i].start_date) + 1
                     /\ months[k] = MonthIndex(first_day)
                                        - MonthIndex(report[i].start_date) + 1
                     /\ last_day = report[i].end_date =>
                           /\ days[k] = report[i].total_days
                           /\ months[k] = report[i].total_months

\* The values of column name, row by row.
ColumnOf(name) == [k \in DOMAIN prod_df |-> prod_df[k][name]]

\* C21: in gaps_by_production_threshold and in running_timeperiods the running
\* day and month counters of a row are 0 on a row outside every gap and, on a gap
\* row, the days and months from the gap's start_date through the row's last day;
\* on the last row of a gap they are the gap's total_days and total_months.
C21_RunningCounters ==
    /\ IsThresholdCall =>
          LET st == ThresholdLoop(cfg, prod_df, Len(prod_df), call.shutin_as_producing)
          IN /\ CountersFollow(gaps_df, st.running_days_vals, st.running_months_vals)
             /\ call.new_days_col # NoCol =>
                   CountersFollow(gaps_df, ColumnOf(call.new_days_col),
                                  ColumnOf(call.new_months_col))
    /\ IsMainCall =>
          /\ CountersFollow(gaps_df.nonprods_raw_df, ColumnOf("days_nonprod_raw"),
                            ColumnOf("months_nonprod_raw"))
          /\ CountersFollow(gaps_df.nonprods_df, ColumnOf("days_nonprod"),
                            ColumnOf("months_nonprod"))
          /\ CountersFollow(gaps_df.shutin_df, ColumnOf("days_shutin"),
                            ColumnOf("months_shutin"))

\* The threshold-based detection has written its counters into the Timeline: a
\* gap of two months through February 2020 ends with 60 running days, and the
\* row after a gap shows 0.
C21_Witness ==
    /\ IsThresholdCall
    /\ call.new_days_col # NoCol
    /\ \E k \in DOMAIN prod_df :
          /\ prod_df[k].FirstOfMonth = <<2020, 2, 1>>
          /\ prod_df[k][call.new_days_col] = 60
          /\ prod_df[k][call.new_months_col] = 2
    /\ \E i \in DOMAIN gaps_df : gaps_df[i].total_days = 60

-----------------------------------------------------------------------------
(* The two threshold detections side by side *)

\* The logic_base entry of main whose gap predicate is that of
\* gaps_by_production_threshold(shutin_as_producing)
LogicFor(shutin_as_producing) ==
    IF shutin_as_producing THEN "production" ELSE "production_raw"

\* gaps_by_production_threshold(shutin_as_producing) of a checker constructed on
\* the records df: its report and its running counters.
CheckerRun(shutin_as_producing) ==
    LET timeline == group_by_month(cfg, df)
        st == ThresholdLoop(cfg, timeline, Len(timeline), shutin_as_producing)
    IN [report |-> _gaps_to_dataframe(CloseOpenGap(st)),
        months_of |-> [k \in DOMAIN timeline |-> timeline[k].FirstOfMonth],
        days |-> st.running_days_vals,
        months |-> st.running_months_vals]

\* running_timeperiods with logic_base[logic] on main's monthly frame of the
\* records df: its report and its running counters.
CogccRun(logic) ==
    LET prod_gb == cogcc_groupby(df)
        st == TimeperiodsLoop(prod_gb, Len(prod_gb), "FirstOfMonth", logic)
    IN [report |-> running_timeperiods(prod_gb, "FirstOfMonth", logic),
        months_of |-> [k \in DOMAIN prod_gb |-> prod_gb[k].FirstOfMonth],
        days |-> st.days_col_new,
        months |-> st.months_col_new]

\* C22: on the same months and the same gap predicate (no production, shut-in
\* counting as production or not), running_timeperiods and
\* gaps_by_production_threshold give the same intervals, the same total_days and
\* total_months and the same running day and month counters.
C22_SameDetection ==
    /\ IsMainCall =>
          /\ gaps_df.nonprods_raw_df = CheckerRun(FALSE).report
          /\ gaps_df.nonprods_df = CheckerRun(TRUE).report
          /\ [k \in DOMAIN prod_df |-> prod_df[k].FirstOfMonth] = CheckerRun(FALSE).months_of
          /\ ColumnOf("days_nonprod_raw") = CheckerRun(FALSE).days
          /\ ColumnOf("months_nonprod_raw") = CheckerRun(FALSE).months
          /\ ColumnOf("days_nonprod") = CheckerRun(TRUE).days
          /\ ColumnOf("months_nonprod") = CheckerRun(TRUE).months
    /\ IsThresholdCall =>
          LET other == CogccRun(LogicFor(call.shutin_as_producing))
              st == ThresholdLoop(cfg, prod_df, Len(prod_df), call.shutin_as_producing)
          IN /\ gaps_df = other.report
             /\ [k \in DOMAIN prod_df |-> prod_df[k].FirstOfMonth] = other.months_of
             /\ st.running_days_vals = other.days
             /\ st.running_months_vals = other.months
             /\ call.new_days_col # NoCol =>
                   /\ ColumnOf(call.new_days_col) = other.days
                   /\ ColumnOf(call.new_months_col) = other.months

\* main has run on records where a shut-in month makes the two predicates differ:
\* a raw gap of 60 days through February 2020, and a shorter gap once shut-in
\* counts as production.
C22_Witness ==
    /\ IsMainCall
    /\ \E i \in DOMAIN gaps_df.nonprods_raw_df :
          /\ gaps_df.nonprods_raw_df[i].end_date = <<2020, 2, 29>>
          /\ gaps_df.nonprods_raw_df[i].total_days = 60
    /\ gaps_df.nonprods_df # <<>>
    /\ gaps_df.nonprods_df # gaps_df.nonprods_raw_df

====
